---- MODULE Spec2Model ----
(***************************************************************************)
(* Plan / step aggregate of the agent UI                                   *)
(* (src/vs/workbench/contrib/aideAgent/common/aideAgentPlanModel.ts).      *)
(*                                                                         *)
(* One AideAgentPlanModel is modelled together with the static id counter  *)
(* of AideAgentPlanStepModel.  Every public method is one atomic action:   *)
(* the code is synchronous and never suspends.  The notifications a call   *)
(* makes are recorded, in order, in the call record `last` and in the      *)
(* cumulative `log`.                                                       *)
(***************************************************************************)
EXTENDS Integers, Sequences, FiniteSets, TLC

\* ---- bounds ----
MaxCalls == 4          \* number of method calls made on the plan
MaxIndex == 2          \* update indices range over 0..MaxIndex
MaxSpans == 3          \* code spans in one hybrid_search response
MaxScore == 2          \* non-null scores range over 0..MaxScore
MaxTerminals == 2      \* terminals TerminalRegistry.createTerminal makes
MaxTermCalls == 3      \* calls made directly on the TerminalManagers
MaxTasks == 3          \* executeTerminalCommand calls (one manager each)
MaxPolls == 3          \* polls of the condition that one pWaitFor call starts

\* ---- update records (IAideAgentPlanStep) ----
\* description is an IMarkdownString object (lines 45, 69) or, at run time,
\* missing.  Text is a sequence of characters.
Absent == [present |-> FALSE, value |-> <<>>]
Md(v) == [present |-> TRUE, value |-> v]
Texts == {<<>>, <<"A">>, <<"B">>}
Descriptions == {Absent} \cup {Md(v) : v \in Texts}
Updates == [index : 0..MaxIndex, description : Descriptions]

\* `!progress.description` (line 78): an IMarkdownString is an object, and
\* every object is truthy whatever its value; only a missing description
\* is falsy.
Falsy(d) == ~d.present

\* appendMarkdownString(md1, md2) of aideAgentModel.ts: the new fragment is
\* appended to the accumulated text.
appendMarkdownString(md1, md2) == Md(md1.value \o md2.value)

\* ---- notifications ----
\* kind: which emitter fired or which disposal ran; id: the step concerned
\* (PlanId for the plan's own emitters); delivered: the emitter still had its
\* listeners (it was not disposed); view: the steps a subscriber reading the
\* model inside its handler sees.
PlanId == <<"plan", 0>>

Event(kind, id, delivered, view) ==
    [kind |-> kind, id |-> id, delivered |-> delivered, view |-> view]

VARIABLES
    steps,          \* AideAgentPlanModel._steps
    nextId,         \* AideAgentPlanStepModel.nextId (static)
    planDisposed,   \* the plan's Disposable store has been disposed
    log,            \* every notification so far, in order
    last,           \* the last call: operation, argument, outcome, state before
    history,        \* the updateSteps calls so far, in order, each with the
                    \* position of the step it was routed to
    calls,          \* number of calls made
    otherIds        \* ids of the steps constructed by other plans

planVars == <<steps, nextId, planDisposed, log, last, history, calls, otherIds>>

\* SideCarClient (extensions/codestory/src/sidecar/client.ts)
VARIABLES
    response,       \* code_spans of the hybrid_search response
    searchPc,       \* getSemanticSearchResult: "idle" or "done"
    searchResult,   \* what getSemanticSearchResult returned
    hcPc,           \* waitForGreenHC: "fetch", "sleep", "returned", "thrown"
    attempts,       \* waitForGreenHC's local `attempts`
    caught,         \* the error `e` of the catch block (number of its fetch)
    outcomes,       \* what each health-check fetch did, in order
    sleeps,         \* the sleep() calls made, in milliseconds
    hcValue,        \* the returned boolean
    hcError         \* the error the call rejected with (0: none)

clientVars == <<response, searchPc, searchResult, hcPc, attempts, caught,
                outcomes, sleeps, hcValue, hcError>>

\* TerminalManager, executeTerminalCommand (unnamed/part_000)
VARIABLES
    registry,       \* TerminalRegistry: ids of its terminals, in order
    tinfo,          \* the TerminalInfo objects ever created, by id
    mgrIds,         \* TerminalManager.terminalIds, per manager
    mgrProcs,       \* TerminalManager.processes, per manager (0: no entry)
    procs,          \* the TerminalProcess objects, one per runCommand call
    grants,         \* what each getOrCreateTerminal call returned, in order
    disposals,      \* number of disposeAll calls, per manager
    tasks,          \* the executeTerminalCommand calls, in call order
    microtasks      \* the calls whose `await` has a settled promise, in
                    \* the order they will resume

termVars == <<registry, tinfo, mgrIds, mgrProcs, procs, grants, disposals,
              tasks, microtasks>>

\* one call of pWaitFor (unnamed/part_000, lines 261-310)
VARIABLES
    waitOptions,    \* options.before, and whether options.timeout is finite
    retryTimeout,   \* a timer set with setTimeout(check, interval) is pending
    abort,          \* the local `abort`
    checking,       \* a check() is suspended at `await condition()`
    polls,          \* what the polls of the condition returned, in order
    promise,        \* state of the promise made at line 275
    timeoutTimer,   \* the timer of pTimeout
    waitPc,         \* where the body of pWaitFor stands
    waitResult,     \* the promise pWaitFor returned to its caller
    latePoll        \* a poll was started after that promise had settled

waitVars == <<waitOptions, retryTimeout, abort, checking, polls, promise,
              timeoutTimer, waitPc, waitResult, latePoll>>

nonPlanVars == <<clientVars, termVars, waitVars>>
nonClientVars == <<planVars, termVars, waitVars>>
nonTermVars == <<planVars, clientVars, waitVars>>
nonWaitVars == <<planVars, clientVars, termVars>>

vars == <<planVars, clientVars, termVars, waitVars>>

\* ---- AideAgentPlanStepModel ----
\* `'step_' + AideAgentPlanStepModel.nextId++` (line 66): the text 'step_'
\* followed by the value the counter had.
StepId(n) == <<"step_", n>>

\* constructor (lines 60-71); the caller advances nextId
NewStep(n, initialValue) ==
    [id          |-> StepId(n),
     index       |-> initialValue.index,
     description |-> initialValue.description,
     parts       |-> <<initialValue>>,
     isComplete  |-> FALSE,
     disposed    |-> FALSE]

\* updateStep without the index check of lines 74-76
updateStep_NoIndexCheck(s, progress) ==
    IF Falsy(progress.description)
    THEN [step |-> s, threw |-> FALSE, events |-> <<>>]
    ELSE LET s1 == [s EXCEPT !.description =
                        appendMarkdownString(s.description, progress.description)]
             s2 == [s1 EXCEPT !.parts = Append(s1.parts, progress)]
         IN  [step |-> s2, threw |-> FALSE,
              events |-> <<Event("stepDidChange", s2.id, ~s2.disposed, <<s2>>)>>]

\* updateStep recording the update before the description guard of line 78
updateStep_PushAlways(s, progress) ==
    IF s.index # progress.index
    THEN [step |-> s, threw |-> TRUE, events |-> <<>>]
    ELSE LET s0 == [s EXCEPT !.parts = Append(s.parts, progress)]
         IN  IF Falsy(progress.description)
             THEN [step |-> s0, threw |-> FALSE, events |-> <<>>]
             ELSE LET s2 == [s0 EXCEPT !.description =
                                appendMarkdownString(s.description,
                                                     progress.description)]
                  IN  [step |-> s2, threw |-> FALSE,
                       events |-> <<Event("stepDidChange", s2.id,
                                          ~s2.disposed, <<s2>>)>>]

\* updateStep adopting the update's index instead of rejecting it
updateStep_AdoptIndex(s, progress) ==
    LET s0 == [s EXCEPT !.index = progress.index]
    IN  IF Falsy(progress.description)
        THEN [step |-> s0, threw |-> FALSE, events |-> <<>>]
        ELSE LET s1 == [s0 EXCEPT !.description =
                           appendMarkdownString(s.description,
                                                progress.description)]
                 s2 == [s1 EXCEPT !.parts = Append(s1.parts, progress)]
             IN  [step |-> s2, threw |-> FALSE,
                  events |-> <<Event("stepDidChange", s2.id,
                                     ~s2.disposed, <<s2>>)>>]

\* updateStep assigning the new description instead of appending it
updateStep_Replace(s, progress) ==
    IF s.index # progress.index
    THEN [step |-> s, threw |-> TRUE, events |-> <<>>]
    ELSE IF Falsy(progress.description)
    THEN [step |-> s, threw |-> FALSE, events |-> <<>>]
    ELSE LET s1 == [s EXCEPT !.description = progress.description]
             s2 == [s1 EXCEPT !.parts = Append(s1.parts, progress)]
         IN  [step |-> s2, threw |-> FALSE,
              events |-> <<Event("stepDidChange", s2.id, ~s2.disposed, <<s2>>)>>]

\* updateStep firing onDidChange before the update is pushed onto _parts
updateStep_FireBeforePush(s, progress) ==
    IF s.index # progress.index
    THEN [step |-> s, threw |-> TRUE, events |-> <<>>]
    ELSE IF Falsy(progress.description)
    THEN [step |-> s, threw |-> FALSE, events |-> <<>>]
    ELSE LET s1 == [s EXCEPT !.description =
                        appendMarkdownString(s.description, progress.description)]
             s2 == [s1 EXCEPT !.parts = Append(s1.parts, progress)]
         IN  [step |-> s2, threw |-> FALSE,
              events |-> <<Event("stepDidChange", s1.id, ~s1.disposed, <<s1>>)>>]

\* updateStep (lines 73-86): the step after the call, whether it threw
\* 'Index mismatch', and the notifications it fired.
updateStep(s, progress) ==
    IF s.index # progress.index
    THEN [step |-> s, threw |-> TRUE, events |-> <<>>]
    ELSE IF Falsy(progress.description)
    THEN [step |-> s, threw |-> FALSE, events |-> <<>>]
    ELSE LET s1 == [s EXCEPT !.description =
                        appendMarkdownString(s.description, progress.description)]
             s2 == [s1 EXCEPT !.parts = Append(s1.parts, progress)]
         IN  [step |-> s2, threw |-> FALSE,
              events |-> <<Event("stepDidChange", s2.id, ~s2.disposed, <<s2>>)>>]

\* ---- AideAgentPlanModel ----
\* `this._steps[progress.index]` (line 110): the slot is looked up by
\* position; a step object is always truthy.
SlotOccupied(ss, index) == index + 1 \in DOMAIN ss

\* updateSteps firing 'addPlanStep' before the step is pushed
updateSteps_FireBeforePush(ss, nid, disposed, progress) ==
    IF SlotOccupied(ss, progress.index)
    THEN LET r == updateStep(ss[progress.index + 1], progress)
         IN  [steps |-> [ss EXCEPT ![progress.index + 1] = r.step],
              nextId |-> nid, threw |-> r.threw, events |-> r.events]
    ELSE LET step == NewStep(nid, progress)
         IN  [steps |-> Append(ss, step), nextId |-> nid + 1, threw |-> FALSE,
              events |-> <<Event("addPlanStep", step.id, ~disposed, ss)>>]

\* updateSteps constructing the step without advancing the id counter
updateSteps_NoIdIncrement(ss, nid, disposed, progress) ==
    IF SlotOccupied(ss, progress.index)
    THEN LET r == updateStep(ss[progress.index + 1], progress)
         IN  [steps |-> [ss EXCEPT ![progress.index + 1] = r.step],
              nextId |-> nid, threw |-> r.threw, events |-> r.events]
    ELSE LET step == NewStep(nid, progress)
             ss1 == Append(ss, step)
         IN  [steps |-> ss1, nextId |-> nid, threw |-> FALSE,
              events |-> <<Event("addPlanStep", step.id, ~disposed, ss1)>>]

\* updateSteps inserting the new step at the front (unshift for push)
updateSteps_Unshift(ss, nid, disposed, progress) ==
    IF SlotOccupied(ss, progress.index)
    THEN LET r == updateStep(ss[progress.index + 1], progress)
         IN  [steps |-> [ss EXCEPT ![progress.index + 1] = r.step],
              nextId |-> nid, threw |-> r.threw, events |-> r.events]
    ELSE LET step == NewStep(nid, progress)
             ss1 == <<step>> \o ss
         IN  [steps |-> ss1, nextId |-> nid + 1, threw |-> FALSE,
              events |-> <<Event("addPlanStep", step.id, ~disposed, ss1)>>]

\* updateSteps (lines 109-117)
updateSteps(ss, nid, disposed, progress) ==
    IF SlotOccupied(ss, progress.index)
    THEN LET r == updateStep(ss[progress.index + 1], progress)
         IN  [steps |-> [ss EXCEPT ![progress.index + 1] = r.step],
              nextId |-> nid, threw |-> r.threw, events |-> r.events]
    ELSE LET step == NewStep(nid, progress)
             ss1 == Append(ss, step)
         IN  [steps |-> ss1, nextId |-> nid + 1, threw |-> FALSE,
              events |-> <<Event("addPlanStep", step.id, ~disposed, ss1)>>]

\* dispose firing onDidDispose before the steps are disposed
dispose_FireFirst(ss, disposed) ==
    LET stepEvents == [p \in DOMAIN ss |->
                          Event("stepDispose", ss[p].id, ~ss[p].disposed, <<>>)]
        ss1 == [p \in DOMAIN ss |-> [ss[p] EXCEPT !.disposed = TRUE]]
    IN  [steps |-> ss1,
         events |-> <<Event("planDidDispose", PlanId, ~disposed, ss)>>
                    \o stepEvents
                    \o <<Event("planEmittersReleased", PlanId, ~disposed, ss1)>>]

\* dispose calling super.dispose() before onDidDispose fires
dispose_ReleaseFirst(ss, disposed) ==
    LET stepEvents == [p \in DOMAIN ss |->
                          Event("stepDispose", ss[p].id, ~ss[p].disposed, <<>>)]
        ss1 == [p \in DOMAIN ss |-> [ss[p] EXCEPT !.disposed = TRUE]]
    IN  [steps |-> ss1,
         events |-> stepEvents
                    \o <<Event("planEmittersReleased", PlanId, ~disposed, ss1)>>
                    \o <<Event("planDidDispose", PlanId, FALSE, ss1)>>]

\* dispose (lines 119-124): every step is disposed in sequence order, then
\* onDidDispose fires, then super.dispose() releases the plan's emitters.
dispose(ss, disposed) ==
    LET stepEvents == [p \in DOMAIN ss |->
                          Event("stepDispose", ss[p].id, ~ss[p].disposed, <<>>)]
        ss1 == [p \in DOMAIN ss |-> [ss[p] EXCEPT !.disposed = TRUE]]
    IN  [steps |-> ss1,
         events |-> stepEvents
                    \o <<Event("planDidDispose", PlanId, ~disposed, ss1)>>
                    \o <<Event("planEmittersReleased", PlanId, ~disposed, ss1)>>]

\* ---- state machine ----
NoUpdate == [index |-> 0, description |-> Absent]

PlanInit ==
    /\ steps = <<>>
    /\ nextId = 0
    /\ planDisposed = FALSE
    /\ log = <<>>
    /\ last = [op |-> "init", arg |-> NoUpdate, threw |-> FALSE,
               events |-> <<>>, pre |-> <<>>, preDisposed |-> FALSE]
    /\ history = <<>>
    /\ calls = 0
    /\ otherIds = {}

\* plan.updateSteps(progress)
UpdateSteps ==
    \E progress \in Updates :
        /\ calls < MaxCalls
        /\ LET r == updateSteps(steps, nextId, planDisposed, progress)
           IN  /\ steps' = r.steps
               /\ nextId' = r.nextId
               /\ log' = log \o r.events
               /\ last' = [op |-> "updateSteps", arg |-> progress,
                           threw |-> r.threw, events |-> r.events,
                           pre |-> steps, preDisposed |-> planDisposed]
        /\ history' = Append(history,
               [progress |-> progress,
                slot |-> IF progress.index + 1 \in DOMAIN steps
                         THEN progress.index + 1 ELSE Len(steps) + 1,
                created |-> progress.index + 1 \notin DOMAIN steps])
        /\ calls' = calls + 1
        /\ UNCHANGED <<planDisposed, otherIds>>
        /\ UNCHANGED nonPlanVars

\* plan.dispose()
Dispose ==
    /\ calls < MaxCalls
    /\ LET r == dispose(steps, planDisposed)
       IN  /\ steps' = r.steps
           /\ log' = log \o r.events
           /\ last' = [op |-> "dispose", arg |-> NoUpdate, threw |-> FALSE,
                       events |-> r.events, pre |-> steps,
                       preDisposed |-> planDisposed]
    /\ planDisposed' = TRUE
    /\ calls' = calls + 1
    /\ UNCHANGED <<nextId, history, otherIds>>
    /\ UNCHANGED nonPlanVars

\* another plan of the process constructs a step (lines 113, 66): it takes
\* the next value of the static counter
OtherPlanCreatesStep ==
    /\ calls < MaxCalls
    /\ otherIds' = otherIds \cup {NewStep(nextId, NoUpdate).id}
    /\ nextId' = nextId + 1
    /\ last' = [op |-> "otherPlan", arg |-> NoUpdate, threw |-> FALSE,
                events |-> <<>>, pre |-> steps, preDisposed |-> planDisposed]
    /\ calls' = calls + 1
    /\ UNCHANGED <<steps, planDisposed, log, history>>
    /\ UNCHANGED nonPlanVars

\* ---- SideCarClient.getSemanticSearchResult (lines 261-310) ----
\* A code span of the response: its score is a number or null.  A span is
\* identified by its position in the response.
Null == [isNull |-> TRUE, v |-> 0]
Num(v) == [isNull |-> FALSE, v |-> v]
Scores == {Null} \cup {Num(v) : v \in 0..MaxScore}
Responses == UNION {[1..n -> Scores] : n \in 0..MaxSpans}

\* comparator with the two numeric operands swapped (ascending order)
compareScores_Ascending(a, b) ==
    IF ~b.isNull /\ ~a.isNull THEN a.v - b.v
    ELSE IF ~b.isNull /\ a.isNull THEN 1
    ELSE IF b.isNull /\ ~a.isNull THEN -1
    ELSE 0

\* the comparator of lines 271-282, on the scores of a and b
compareScores(a, b) ==
    IF ~b.isNull /\ ~a.isNull THEN b.v - a.v
    ELSE IF ~b.isNull /\ a.isNull THEN 1
    ELSE IF b.isNull /\ ~a.isNull THEN -1
    ELSE 0

\* Array.prototype.sort (line 271): a stable sort; x goes before the first
\* element that the comparator puts after it.
RECURSIVE InsertSorted(_, _, _)
InsertSorted(sorted, x, spans) ==
    IF sorted = <<>> THEN <<x>>
    ELSE IF compareScores(spans[Head(sorted)], spans[x]) > 0
         THEN <<x>> \o sorted
         ELSE <<Head(sorted)>> \o InsertSorted(Tail(sorted), x, spans)

RECURSIVE SortPositions(_, _)
SortPositions(n, spans) ==
    IF n = 0 THEN <<>>
    ELSE InsertSorted(SortPositions(n - 1, spans), n, spans)

\* lines 270-309: sort the spans, then map each to its embedding record,
\* which keeps the span's content (here: which span it is) but not the score
getSemanticSearchResult(spans) ==
    LET sorted == SortPositions(Len(spans), spans)
    IN  [k \in DOMAIN sorted |-> [span |-> sorted[k]]]

\* ---- SideCarClient.waitForGreenHC (lines 237-259) ----
totalAttempts == 10
Statuses == {200, 503}
Thrown == 0             \* a fetch that threw, among the outcomes

\* line 250
hcSleepMs(att) == 1000 * (att + 1)

\* `attempts <= totalAttempts`
hcRetry_Inclusive(att) == att <= totalAttempts

\* line 252
hcRetry(att) == att < totalAttempts

ClientIdle ==
    /\ response = <<>>
    /\ searchPc = "idle"
    /\ searchResult = <<>>
    /\ hcPc = "fetch"
    /\ attempts = 0
    /\ caught = 0
    /\ outcomes = <<>>
    /\ sleeps = <<>>
    /\ hcValue = FALSE
    /\ hcError = 0

ClientInit ==
    /\ response \in Responses
    /\ searchPc = "idle"
    /\ searchResult = <<>>
    /\ hcPc = "fetch"
    /\ attempts = 0
    /\ caught = 0
    /\ outcomes = <<>>
    /\ sleeps = <<>>
    /\ hcValue = FALSE
    /\ hcError = 0

hcVars == <<hcPc, attempts, caught, outcomes, sleeps, hcValue, hcError>>

\* getSemanticSearchResult once the response has arrived
SemanticSearch ==
    /\ searchPc = "idle"
    /\ searchResult' = getSemanticSearchResult(response)
    /\ searchPc' = "done"
    /\ UNCHANGED <<response, hcVars, nonClientVars>>

\* lines 246-247: the fetch resolves and the method returns
HcFetchReturns ==
    \E status \in Statuses :
        /\ hcPc = "fetch"
        /\ outcomes' = Append(outcomes, status)
        /\ hcValue' = (status = 200)
        /\ hcPc' = "returned"
        /\ UNCHANGED <<attempts, caught, sleeps, hcError>>
        /\ UNCHANGED <<response, searchPc, searchResult, nonClientVars>>

\* lines 246, 248-250: the fetch throws; the catch block starts its sleep
HcFetchThrows ==
    /\ hcPc = "fetch"
    /\ outcomes' = Append(outcomes, Thrown)
    /\ caught' = Len(outcomes) + 1
    /\ sleeps' = Append(sleeps, hcSleepMs(attempts))
    /\ hcPc' = "sleep"
    /\ UNCHANGED <<attempts, hcValue, hcError>>
    /\ UNCHANGED <<response, searchPc, searchResult, nonClientVars>>

\* lines 251-256: after the sleep, count the attempt, then retry or rethrow
HcAfterSleep ==
    /\ hcPc = "sleep"
    /\ attempts' = attempts + 1
    /\ IF hcRetry(attempts + 1)
       THEN hcPc' = "fetch" /\ UNCHANGED hcError
       ELSE hcPc' = "thrown" /\ hcError' = caught
    /\ UNCHANGED <<caught, outcomes, sleeps, hcValue>>
    /\ UNCHANGED <<response, searchPc, searchResult, nonClientVars>>

ClientNext == SemanticSearch \/ HcFetchReturns \/ HcFetchThrows \/ HcAfterSleep


\* ---- TerminalManager (unnamed/part_000, lines 97-219) ----
Managers == 1..MaxTasks
Cwds == {"a", "b"}
\* the command string of the p-th runCommand call: every call has its own
Command(p) == <<"command", p>>
ProcessEvents == {"completed", "continue", "error", "no_shell_integration"}

\* TerminalRegistry.createTerminal(cwd): a new TerminalInfo, not busy, whose
\* terminal has no shell integration yet
NewTerminalInfo(id, cwd) ==
    [id |-> id, busy |-> FALSE, lastCommand |-> <<>>, cwd |-> cwd,
     shellIntegration |-> FALSE]

\* new TerminalProcess() (line 120) of the runCommand call of manager m on
\* terminal t; waitForShellIntegration starts true
NewProcess(m, t, command) ==
    [mgr |-> m, term |-> t, command |-> command,
     waitForShellIntegration |-> TRUE,
     waiting |-> FALSE,          \* the pWaitFor of lines 152-158 is pending
     runs |-> <<>>,              \* the process.run(terminal, command) calls
     emitted |-> {},
     promise |-> "pending"]

\* the predicate of the find() in getOrCreateTerminal (lines 166-175)
IsAvailable(t, cwd) ==
    /\ ~tinfo[t].busy
    /\ tinfo[t].shellIntegration
    /\ tinfo[t].cwd = cwd

\* Array.prototype.find over TerminalRegistry.getAllTerminals(): the first
\* available terminal, or 0
availableTerminal(cwd) ==
    LET hits == SelectSeq(registry, LAMBDA t : IsAvailable(t, cwd))
    IN  IF hits = <<>> THEN 0 ELSE Head(hits)

\* getTerminals(busy) (lines 190-195)
getTerminals(m, busy) ==
    {t \in mgrIds[m] :
        /\ \E k \in DOMAIN registry : registry[k] = t
        /\ tinfo[t].busy = busy}

\* what TerminalProcess.getUnretrievedOutput() gives for process p: a process
\* that was run is taken to have output nobody has retrieved yet
Output(p) == IF procs[p].runs # <<>> THEN <<"output", p>> ELSE <<>>

getUnretrievedOutput_NoIdCheck(m, terminalId) ==
    IF mgrProcs[m][terminalId] # 0
    THEN Output(mgrProcs[m][terminalId])
    ELSE <<>>

\* getUnretrievedOutput(terminalId) (lines 197-203)
getUnretrievedOutput(m, terminalId) ==
    IF terminalId \notin mgrIds[m]
    THEN <<>>
    ELSE IF mgrProcs[m][terminalId] # 0
         THEN Output(mgrProcs[m][terminalId])
         ELSE <<>>

TermIdle ==
    /\ registry = <<>>
    /\ tinfo = <<>>
    /\ mgrIds = [m \in Managers |-> {}]
    /\ mgrProcs = [m \in Managers |-> [t \in 1..MaxTerminals |-> 0]]
    /\ procs = <<>>
    /\ grants = <<>>
    /\ disposals = [m \in Managers |-> 0]
    /\ tasks = <<>>
    /\ microtasks = <<>>

\* getOrCreateTerminal(cwd) on manager m (lines 164-188)
GetOrCreateTerminal(m, cwd) ==
    /\ LET found == availableTerminal(cwd)
       IN  IF found # 0
           THEN /\ mgrIds' = [mgrIds EXCEPT ![m] = @ \cup {found}]
                /\ grants' = Append(grants, [mgr |-> m, term |-> found])
                /\ UNCHANGED <<registry, tinfo>>
           ELSE /\ Len(tinfo) < MaxTerminals
                /\ LET id == Len(tinfo) + 1
                   IN  /\ tinfo' = Append(tinfo, NewTerminalInfo(id, cwd))
                       /\ registry' = Append(registry, id)
                       /\ mgrIds' = [mgrIds EXCEPT ![m] = @ \cup {id}]
                       /\ grants' = Append(grants, [mgr |-> m, term |-> id])
    /\ UNCHANGED <<mgrProcs, procs, disposals>>

\* process.run(terminal, command) on process q: the run is recorded with
\* whether the terminal had shell integration at that moment
RunOn(ps, q, command, t) ==
    [ps EXCEPT ![q].waitForShellIntegration = FALSE,
               ![q].runs = Append(@, [command |-> command,
                                     integrated |-> tinfo[t].shellIntegration])]

\* runCommand(terminalInfo, command) on manager m (lines 117-162)
RunCommand(m, t, command) ==
    /\ LET p == Len(procs) + 1
           started == Append(procs, NewProcess(m, t, command))
       IN  /\ tinfo' = [tinfo EXCEPT ![t].busy = TRUE,
                                     ![t].lastCommand = command]
           /\ mgrProcs' = [mgrProcs EXCEPT ![m][t] = p]
           /\ IF tinfo[t].shellIntegration
              THEN procs' = RunOn(started, p, command, t)
              ELSE procs' = [started EXCEPT ![p].waiting = TRUE]
    /\ UNCHANGED <<registry, mgrIds, grants, disposals>>

\* the callback of pWaitFor(...).finally (lines 152-158) of the runCommand
\* call that made process p: the wait ended, by success or by timeout
WaitEnds(p) ==
    /\ procs[p].waiting
    /\ LET m == procs[p].mgr
           t == procs[p].term
           existingProcess == mgrProcs[m][t]
           ended == [procs EXCEPT ![p].waiting = FALSE]
       IN  IF existingProcess # 0
              /\ procs[existingProcess].waitForShellIntegration
           THEN procs' = RunOn(ended, existingProcess, procs[p].command, t)
           ELSE procs' = ended
    /\ UNCHANGED <<registry, tinfo, mgrIds, mgrProcs, grants, disposals>>

\* VS Code activates shell integration in terminal t
ShellIntegrationActivates(t) ==
    /\ ~tinfo[t].shellIntegration
    /\ tinfo' = [tinfo EXCEPT ![t].shellIntegration = TRUE]
    /\ UNCHANGED <<registry, mgrIds, mgrProcs, procs, grants, disposals>>

\* a process that has been run emits an event; the handlers registered with
\* once() in runCommand (lines 123-144) react, each to the first emission of
\* its event.  'no_shell_integration' is emitted only by a run made without
\* shell integration.  Once the promise of lines 136-144 is settled a
\* 'continue' or 'error' changes nothing and is left out.
Emit(p, ev) ==
    /\ procs[p].runs # <<>>
    /\ ev \notin procs[p].emitted
    /\ ev = "no_shell_integration" => ~procs[p].runs[1].integrated
    /\ ev \in {"continue", "error"} => procs[p].promise = "pending"
    /\ LET m == procs[p].mgr
           t == procs[p].term
           settled(res) ==
               [procs EXCEPT ![p].emitted = @ \cup {ev},
                             ![p].promise = IF @ = "pending" THEN res ELSE @]
       IN  CASE ev = "completed" ->
                    /\ tinfo' = [tinfo EXCEPT ![t].busy = FALSE]
                    /\ procs' = [procs EXCEPT ![p].emitted = @ \cup {ev}]
                    /\ UNCHANGED <<registry, mgrIds, mgrProcs>>
             [] ev = "no_shell_integration" ->
                    /\ registry' = SelectSeq(registry, LAMBDA x : x # t)
                    /\ mgrIds' = [mgrIds EXCEPT ![m] = @ \ {t}]
                    /\ mgrProcs' = [mgrProcs EXCEPT ![m][t] = 0]
                    /\ procs' = [procs EXCEPT ![p].emitted = @ \cup {ev}]
                    /\ UNCHANGED tinfo
             [] ev = "continue" ->
                    /\ procs' = settled("resolved")
                    /\ UNCHANGED <<registry, tinfo, mgrIds, mgrProcs>>
             [] ev = "error" ->
                    /\ procs' = settled("rejected")
                    /\ UNCHANGED <<registry, tinfo, mgrIds, mgrProcs>>
    /\ UNCHANGED <<grants, disposals>>

\* disposeAll() on manager m (lines 210-218)
DisposeAll(m) ==
    /\ mgrIds' = [mgrIds EXCEPT ![m] = {}]
    /\ mgrProcs' = [mgrProcs EXCEPT ![m] = [t \in 1..MaxTerminals |-> 0]]
    /\ disposals' = [disposals EXCEPT ![m] = @ + 1]
    /\ UNCHANGED <<registry, tinfo, procs, grants>>

\* -- the manager used directly by its owner --
RECURSIVE SumOver(_, _)
SumOver(f, S) ==
    IF S = {} THEN 0
    ELSE LET x == CHOOSE y \in S : TRUE IN f[x] + SumOver(f, S \ {x})

TermCalls == Len(grants) + Len(procs) + SumOver(disposals, Managers)

\* the terminals getOrCreateTerminal has returned to the owner of manager m
GrantedTo(m) == {grants[g].term : g \in {h \in DOMAIN grants : grants[h].mgr = m}}

CallGetOrCreateTerminal ==
    \E m \in Managers, cwd \in Cwds :
        /\ TermCalls < MaxTermCalls
        /\ GetOrCreateTerminal(m, cwd)
        /\ UNCHANGED <<tasks, microtasks, nonTermVars>>

CallRunCommand ==
    \E m \in Managers :
        \E t \in GrantedTo(m) :
            /\ TermCalls < MaxTermCalls
            /\ RunCommand(m, t, Command(Len(procs) + 1))
            /\ UNCHANGED <<tasks, microtasks, nonTermVars>>

\* The next three run as event-loop tasks of their own (a timer, a VS Code
\* event, terminal output): never while a resumption is still queued.
PWaitForSettles ==
    \E p \in DOMAIN procs :
        /\ microtasks = <<>>
        /\ WaitEnds(p)
        /\ UNCHANGED <<tasks, microtasks, nonTermVars>>

ShellIntegrationStarts ==
    \E t \in DOMAIN tinfo :
        /\ microtasks = <<>>
        /\ ShellIntegrationActivates(t)
        /\ UNCHANGED <<tasks, microtasks, nonTermVars>>

ProcessEmits ==
    \E p \in DOMAIN procs, ev \in ProcessEvents :
        /\ microtasks = <<>>
        /\ Emit(p, ev)
        /\ UNCHANGED <<tasks, microtasks, nonTermVars>>

CallDisposeAll ==
    \E m \in Managers :
        /\ TermCalls < MaxTermCalls
        /\ DisposeAll(m)
        /\ UNCHANGED <<tasks, microtasks, nonTermVars>>

TerminalNext ==
    \/ CallGetOrCreateTerminal
    \/ CallRunCommand
    \/ PWaitForSettles
    \/ ShellIntegrationStarts
    \/ ProcessEmits
    \/ CallDisposeAll

\* ---- executeTerminalCommand (lines 221-253) ----
\* The k-th call owns manager k (line 227).  It suspends at `await
\* terminalManager.getOrCreateTerminal(cwd)` (line 230) with the terminal
\* already chosen, and at `await process` (line 245).

\* `cwd: string = process.cwd()` (line 223): the calls leave cwd to its
\* default, the working directory of the extension host
ProcessCwd == "a"

\* lines 227-230: the call is made; getOrCreateTerminal runs to its return
\* inside the call, and the resumption is queued
ExecStart ==
    \E wait \in BOOLEAN :
        LET k == Len(tasks) + 1
        IN  /\ k <= MaxTasks
            /\ GetOrCreateTerminal(k, ProcessCwd)
            /\ tasks' = Append(tasks,
                   [pc |-> "gotTerminal", wait_for_exit |-> wait,
                    term |-> grants'[Len(grants')].term, proc |-> 0])
            /\ microtasks' = Append(microtasks, k)
            /\ UNCHANGED nonTermVars

\* lines 227-230 when getOrCreateTerminal fails: no terminal is available
\* and TerminalRegistry.createTerminal (line 183) throws, so the promise the
\* call awaits is rejected; nothing was added to the manager
ExecStartFails ==
    \E wait \in BOOLEAN :
        LET k == Len(tasks) + 1
        IN  /\ k <= MaxTasks
            /\ availableTerminal(ProcessCwd) = 0
            /\ tasks' = Append(tasks,
                   [pc |-> "getFailed", wait_for_exit |-> wait,
                    term |-> 0, proc |-> 0])
            /\ microtasks' = Append(microtasks, k)
            /\ UNCHANGED <<registry, tinfo, mgrIds, mgrProcs, procs, grants,
                           disposals, nonTermVars>>

\* lines 230 and 247-252: the oldest queued call resumes with the rejection
\* of getOrCreateTerminal and leaves through the finally block
ExecRethrow ==
    /\ microtasks # <<>>
    /\ LET k == Head(microtasks)
       IN  /\ tasks[k].pc = "getFailed"
           /\ IF tasks[k].wait_for_exit
              THEN DisposeAll(k)
              ELSE UNCHANGED <<registry, tinfo, mgrIds, mgrProcs, procs,
                               grants, disposals>>
           /\ tasks' = [tasks EXCEPT ![k].pc = "rejected"]
    /\ microtasks' = Tail(microtasks)
    /\ UNCHANGED nonTermVars

\* lines 230-242: the oldest queued call resumes, calls runCommand and, when
\* not asked to wait, returns (the finally block then does nothing)
ExecResume ==
    /\ microtasks # <<>>
    /\ LET k == Head(microtasks)
       IN  /\ tasks[k].pc = "gotTerminal"
           /\ RunCommand(k, tasks[k].term, Command(Len(procs) + 1))
           /\ tasks' = [tasks EXCEPT
                  ![k].proc = Len(procs) + 1,
                  ![k].pc = IF tasks[k].wait_for_exit
                            THEN "awaiting" ELSE "returned"]
    /\ microtasks' = Tail(microtasks)
    /\ UNCHANGED nonTermVars

ExecSettle_DisposeOnResolveOnly ==
    \E k \in DOMAIN tasks :
        /\ tasks[k].pc = "awaiting"
        /\ procs[tasks[k].proc].promise # "pending"
        /\ IF procs[tasks[k].proc].promise = "resolved"
           THEN DisposeAll(k)
           ELSE UNCHANGED <<registry, tinfo, mgrIds, mgrProcs, procs,
                            grants, disposals>>
        /\ tasks' = [tasks EXCEPT
               ![k].pc = IF procs[tasks[k].proc].promise = "resolved"
                         THEN "returned" ELSE "rejected"]
        /\ UNCHANGED <<microtasks, nonTermVars>>

\* lines 245-251: the awaited process promise has settled; the call leaves
\* through the finally block, which calls disposeAll
ExecSettle ==
    \E k \in DOMAIN tasks :
        /\ tasks[k].pc = "awaiting"
        /\ procs[tasks[k].proc].promise # "pending"
        /\ DisposeAll(k)
        /\ tasks' = [tasks EXCEPT
               ![k].pc = IF procs[tasks[k].proc].promise = "resolved"
                         THEN "returned" ELSE "rejected"]
        /\ UNCHANGED <<microtasks, nonTermVars>>

ExecNext ==
    \/ ExecStart
    \/ ExecStartFails
    \/ ExecRethrow
    \/ ExecResume
    \/ ExecSettle
    \/ PWaitForSettles
    \/ ShellIntegrationStarts
    \/ ProcessEmits

\* ---- pWaitFor (unnamed/part_000, lines 261-310) ----
\* what one poll of the condition can give: a boolean, a value that is not
\* a boolean, or an exception (thrown, or a rejected promise)
PollValues == {"true", "false", "nonboolean", "throws"}

Pending == [state |-> "pending", reason |-> "none"]

\* lines 277-289: what check() does to the promise with the value polled
checkOutcome(value) ==
    CASE value \in {"nonboolean", "throws"} -> "rejected"
      [] value = "true" -> "resolved"
      [] OTHER -> "pending"

shouldRetry_IgnoreAbort(value, ab) == value = "false"

\* lines 284-286: check() sets the retry timer
shouldRetry(value, ab) == value = "false" /\ ~ab

\* the state before pWaitFor is called
WaitIdle ==
    /\ waitOptions = [before |-> TRUE, timeout |-> "infinite"]
    /\ retryTimeout = FALSE
    /\ abort = FALSE
    /\ checking = FALSE
    /\ polls = <<>>
    /\ promise = "pending"
    /\ timeoutTimer = "none"
    /\ waitPc = "idle"
    /\ waitResult = Pending
    /\ latePoll = FALSE

\* lines 265-305, the synchronous part of the call: the first check() is
\* started or the first timer set, and pTimeout arms its timer
WaitInit ==
    /\ \E before \in BOOLEAN, timeout \in {"finite", "infinite"} :
           /\ waitOptions = [before |-> before, timeout |-> timeout]
           /\ checking = before
           /\ retryTimeout = ~before
           /\ timeoutTimer = IF timeout = "finite" THEN "armed" ELSE "none"
    /\ abort = FALSE
    /\ polls = <<>>
    /\ promise = "pending"
    /\ waitPc = "awaiting"
    /\ waitResult = Pending
    /\ latePoll = FALSE

\* lines 278-289: condition() has given its value and check() resumes.
\* When this settles the promise, pTimeout clears its timer and settles
\* its own promise (finite timeout), or the returned promise follows.
ConditionReturns ==
    \E value \in PollValues :
        LET settles == promise = "pending" /\ checkOutcome(value) # "pending"
            first == settles /\ waitPc = "awaiting"
        IN  /\ checking
            /\ checking' = FALSE
            /\ polls' = Append(polls,
                   [value |-> value, late |-> waitResult.state # "pending"])
            /\ promise' = IF settles THEN checkOutcome(value) ELSE promise
            /\ retryTimeout' = (retryTimeout \/ shouldRetry(value, abort))
            /\ waitPc' = IF ~first THEN waitPc
                         ELSE IF waitOptions.timeout = "finite"
                              THEN "finally" ELSE "returning"
            /\ timeoutTimer' = IF first /\ timeoutTimer = "armed"
                               THEN "cleared" ELSE timeoutTimer
            /\ UNCHANGED <<waitOptions, abort, waitResult, latePoll,
                           nonWaitVars>>

\* the timer of line 285 or 295 fires and check() calls condition(); a timer
\* callback never runs while a resumption of pWaitFor is queued
RetryTimerFires ==
    /\ retryTimeout
    /\ waitPc \notin {"finally", "returning"}
    /\ Len(polls) < MaxPolls
    /\ retryTimeout' = FALSE
    /\ checking' = TRUE
    /\ latePoll' = (latePoll \/ waitResult.state # "pending")
    /\ UNCHANGED <<waitOptions, abort, polls, promise, timeoutTimer, waitPc,
                   waitResult, nonWaitVars>>

\* pTimeout: the milliseconds have passed while the promise is pending, and
\* pTimeout rejects its own promise
TimeoutElapses ==
    /\ timeoutTimer = "armed"
    /\ waitPc = "awaiting"
    /\ timeoutTimer' = "fired"
    /\ waitPc' = "finally"
    /\ UNCHANGED <<waitOptions, retryTimeout, abort, checking, polls,
                   promise, waitResult, latePoll, nonWaitVars>>

\* what the settled promise of line 275 gives the caller
Settled(pr) ==
    [state |-> pr, reason |-> IF pr = "resolved" THEN "true" ELSE "error"]

\* lines 303-309: `await pTimeout(...)` resumes, the finally block runs and
\* the promise pWaitFor returned settles as pTimeout's did
WaitFinally ==
    /\ waitPc = "finally"
    /\ abort' = TRUE
    /\ retryTimeout' = FALSE
    /\ waitResult' = IF timeoutTimer = "fired"
                     THEN [state |-> "rejected", reason |-> "timeout"]
                     ELSE Settled(promise)
    /\ waitPc' = "done"
    /\ UNCHANGED <<waitOptions, checking, polls, promise, timeoutTimer,
                   latePoll, nonWaitVars>>

\* lines 299-301: without a timeout the returned promise follows the
\* promise of line 275
WaitReturnsPromise ==
    /\ waitPc = "returning"
    /\ waitResult' = Settled(promise)
    /\ waitPc' = "done"
    /\ UNCHANGED <<waitOptions, retryTimeout, abort, checking, polls,
                   promise, timeoutTimer, latePoll, nonWaitVars>>

WaitNext ==
    \/ ConditionReturns
    \/ RetryTimerFires
    \/ TimeoutElapses
    \/ WaitFinally
    \/ WaitReturnsPromise


\* ---- specifications ----
Init == PlanInit /\ ClientIdle /\ TermIdle /\ WaitIdle

Next == UpdateSteps \/ Dispose \/ OtherPlanCreatesStep

Spec == Init /\ [][Next]_vars

InitClient == PlanInit /\ ClientInit /\ TermIdle /\ WaitIdle

SpecClient == InitClient /\ [][ClientNext]_vars

InitTerminal == PlanInit /\ ClientIdle /\ TermIdle /\ WaitIdle

SpecTerminal == InitTerminal /\ [][TerminalNext]_vars

InitExec == PlanInit /\ ClientIdle /\ TermIdle /\ WaitIdle

SpecExec == InitExec /\ [][ExecNext]_vars

InitWait == PlanInit /\ ClientIdle /\ TermIdle /\ WaitInit

SpecWait == InitWait /\ [][WaitNext]_vars

TypeOK ==
    /\ nextId \in Nat
    /\ planDisposed \in BOOLEAN
    /\ calls \in 0..MaxCalls
    /\ \A p \in DOMAIN steps : steps[p].index \in 0..MaxIndex
\* ---- helpers for the properties ----
NonEmpty(d) == d.present /\ d.value # <<>>

RECURSIVE ConcatValues(_)
ConcatValues(ds) ==
    IF ds = <<>> THEN <<>> ELSE Head(ds).value \o ConcatValues(Tail(ds))

\* the updates routed to position p, in arrival order
RoutedTo(p) ==
    LET sel == SelectSeq(history, LAMBDA h : h.slot = p)
    IN  [k \in DOMAIN sel |-> sel[k].progress]

Indices == {history[k].progress.index : k \in DOMAIN history}

\* C1: on a plan that starts empty, two updates with the same index and
\* non-empty descriptions A then B give exactly one step, whose description
\* is A followed by B and whose fragment sequence has length 2; in general a
\* step's description is the in-order concatenation of the descriptions of
\* the non-empty updates applied to it.
C1_SameIndexAccumulates ==
    /\ (/\ calls = 2 /\ Len(history) = 2
        /\ history[1].progress.index = history[2].progress.index
        /\ NonEmpty(history[1].progress.description)
        /\ NonEmpty(history[2].progress.description))
       => /\ Len(steps) = 1
          /\ steps[1].description.value =
                 history[1].progress.description.value
                 \o history[2].progress.description.value
          /\ Len(steps[1].parts) = 2
    /\ \A p \in DOMAIN steps :
          steps[p].description.value =
              ConcatValues([k \in DOMAIN steps[p].parts |->
                               steps[p].parts[k].description])

\* C2: for updates delivered in increasing index order starting at 0, the
\* number of steps equals the number of distinct indices delivered.
C2_CountEqualsDistinctIndices ==
    (/\ history # <<>>
     /\ history[1].progress.index = 0
     /\ \A k \in 1..(Len(history) - 1) :
            history[k].progress.index <= history[k + 1].progress.index)
    => Len(steps) = Cardinality(Indices)

\* C3: an update with an empty or absent description applied to an existing
\* step of the same index changes neither the description nor the fragment
\* count and fires no notification.
C3_EmptyOrAbsentIsNoOp ==
    (/\ last.op = "updateSteps"
     /\ SlotOccupied(last.pre, last.arg.index)
     /\ last.pre[last.arg.index + 1].index = last.arg.index
     /\ ~NonEmpty(last.arg.description))
    => /\ steps = last.pre
       /\ last.events = <<>>
\* C4: an update whose index differs from the index of the step it is
\* delegated to raises the index-mismatch error; the step, and with it the
\* whole step sequence, is unchanged and no notification fires.
C4_MismatchThrowsUnmutated ==
    (/\ last.op = "updateSteps"
     /\ SlotOccupied(last.pre, last.arg.index)
     /\ last.pre[last.arg.index + 1].index # last.arg.index)
    => /\ last.threw
       /\ steps = last.pre
       /\ last.events = <<>>

C4_Witness ==
    /\ last.op = "updateSteps"
    /\ SlotOccupied(last.pre, last.arg.index)
    /\ last.pre[last.arg.index + 1].index # last.arg.index
    /\ NonEmpty(last.arg.description)
    /\ last.threw

\* C5: dispose() on a plan holding N steps makes exactly N step disposals,
\* one per owned step, then exactly one onDidDispose notification, fired
\* when every step is already disposed, and only then releases the plan's
\* notification channels.
C5_DisposeOrder ==
    last.op = "dispose" =>
        LET n == Len(last.pre)
            ev == last.events
        IN  /\ Len(ev) = n + 2
            /\ \A p \in 1..n : /\ ev[p].kind = "stepDispose"
                               /\ ev[p].id = last.pre[p].id
            /\ ev[n + 1].kind = "planDidDispose"
            /\ ev[n + 1].delivered = ~last.preDisposed
            /\ \A p \in DOMAIN ev[n + 1].view : ev[n + 1].view[p].disposed
            /\ ev[n + 2].kind = "planEmittersReleased"
            /\ planDisposed
            /\ \A p \in DOMAIN steps : steps[p].disposed

C5_Witness ==
    /\ last.op = "dispose"
    /\ ~last.preDisposed
    /\ Len(last.pre) >= 2
    /\ Len(last.events) = Len(last.pre) + 2

\* C6: an update for an empty slot constructs exactly one step from the
\* update, appends it at the end, and then emits exactly one 'addPlanStep'
\* notification carrying that step, which is already in the sequence; an
\* update for an occupied slot is delegated to the step there and emits no
\* plan-level notification.
C6_CreateOrDelegate ==
    last.op = "updateSteps" =>
        IF ~SlotOccupied(last.pre, last.arg.index)
        THEN /\ Len(steps) = Len(last.pre) + 1
             /\ SubSeq(steps, 1, Len(last.pre)) = last.pre
             /\ steps[Len(steps)].index = last.arg.index
             /\ steps[Len(steps)].description = last.arg.description
             /\ steps[Len(steps)].parts = <<last.arg>>
             /\ Len(last.events) = 1
             /\ last.events[1].kind = "addPlanStep"
             /\ last.events[1].id = steps[Len(steps)].id
             /\ last.events[1].view = steps
             /\ ~last.threw
        ELSE LET r == updateStep(last.pre[last.arg.index + 1], last.arg)
             IN  /\ steps = [last.pre EXCEPT ![last.arg.index + 1] = r.step]
                 /\ last.threw = r.threw
                 /\ \A k \in DOMAIN last.events :
                        last.events[k].kind = "stepDidChange"

C6_Witness ==
    /\ last.op = "updateSteps"
    /\ ~SlotOccupied(last.pre, last.arg.index)
    /\ Len(last.pre) >= 1
    /\ Len(steps[1].parts) >= 2
    /\ last.events # <<>>

\* C7: getSteps() is in index order without gaps: the step at position p has
\* index p, so an update for index i is always delegated to the step whose
\* index is i.
C7_PositionIsIndex ==
    /\ \A p \in DOMAIN steps : steps[p].index = p - 1
    /\ (last.op = "updateSteps" /\ SlotOccupied(last.pre, last.arg.index))
       => last.pre[last.arg.index + 1].index = last.arg.index

\* C8: a step is created once per index: no two steps of the plan have the
\* same index, and an update for an index already seen never creates a step.
C8_OneStepPerIndex ==
    /\ \A p, q \in DOMAIN steps : p # q => steps[p].index # steps[q].index
    /\ \A k \in DOMAIN history :
          history[k].created =>
              \A j \in 1..(k - 1) :
                  history[j].progress.index # history[k].progress.index

\* the updates routed to the step at position p that carry the step's index
AddressedTo(p) ==
    SelectSeq(RoutedTo(p), LAMBDA u : u.index = steps[p].index)

\* C9 (as stated): the fragment sequence of a step holds one fragment per
\* update addressed to the step, the creating one included, in arrival
\* order.
C9_OneFragmentPerUpdate ==
    \A p \in DOMAIN steps : steps[p].parts = AddressedTo(p)

\* C9 (amended): the fragment sequence of a step holds, in arrival order,
\* the update that created the step and then one fragment per later update
\* with the step's index that carries a description; an update without a
\* description adds no fragment.
C9_OneFragmentPerDescribedUpdate ==
    \A p \in DOMAIN steps :
        steps[p].parts =
            <<RoutedTo(p)[1]>>
            \o SelectSeq(Tail(AddressedTo(p)),
                         LAMBDA u : u.description.present)

C9_Witness ==
    \E p \in DOMAIN steps :
        /\ Len(steps[p].parts) >= 2
        /\ Len(AddressedTo(p)) > Len(steps[p].parts)

\* C10: the index of a step is the index of the update that created it, and
\* no call (successful, no-op or failing) changes it.
C10_IndexFixed ==
    \A p \in DOMAIN steps :
        /\ steps[p].index = RoutedTo(p)[1].index
        /\ p \in DOMAIN last.pre => steps[p].index = last.pre[p].index

C10_Witness ==
    /\ last.op = "updateSteps"
    /\ \E p \in DOMAIN steps : Len(AddressedTo(p)) >= 2
    /\ \E k \in DOMAIN history :
          /\ ~history[k].created
          /\ steps[history[k].slot].index # history[k].progress.index
IsPrefix(a, b) == Len(a) <= Len(b) /\ SubSeq(b, 1, Len(a)) = a

\* C11: state only grows: across a call the step sequence before is a prefix
\* of the step sequence after (the same steps at the same positions), and
\* each step's fragment sequence and description text before are prefixes
\* of their values after.
C11_OnlyGrows ==
    /\ Len(last.pre) <= Len(steps)
    /\ \A p \in DOMAIN last.pre :
          /\ steps[p].id = last.pre[p].id
          /\ IsPrefix(last.pre[p].parts, steps[p].parts)
          /\ IsPrefix(last.pre[p].description.value, steps[p].description.value)

C11_Witness ==
    /\ last.op = "updateSteps"
    /\ SlotOccupied(last.pre, last.arg.index)
    /\ NonEmpty(last.pre[last.arg.index + 1].description)
    /\ NonEmpty(last.arg.description)
    /\ Len(steps[last.arg.index + 1].parts) > Len(last.pre[last.arg.index + 1].parts)

DisposedNotifications ==
    SelectSeq(log, LAMBDA e : e.kind = "planDidDispose" /\ e.delivered)

\* C12: the plan is Active or Disposed; only dispose() takes it from Active
\* to Disposed, Disposed is terminal, step addition and step update neither
\* change the plan's state nor fire the disposed notification, and the
\* subscribers receive the disposed notification once in the plan's life.
C12_ActiveThenDisposed ==
    /\ planDisposed \in BOOLEAN
    /\ last.preDisposed => planDisposed
    /\ last.op = "dispose" => planDisposed
    /\ last.op # "dispose" =>
          /\ planDisposed = last.preDisposed
          /\ \A k \in DOMAIN last.events : last.events[k].kind # "planDidDispose"
    /\ Len(DisposedNotifications) = (IF planDisposed THEN 1 ELSE 0)

C12_Witness ==
    /\ planDisposed
    /\ last.op = "updateSteps"
    /\ last.preDisposed
    /\ Len(steps) >= 2
    /\ Len(SelectSeq(log, LAMBDA e : e.kind = "planDidDispose")) = 2

StepIds == {steps[p].id : p \in DOMAIN steps}

\* C13: every step has an id that no other step of the process has, in this
\* plan or in another, and updates never change it.
C13_IdsUniqueAndStable ==
    /\ \A p, q \in DOMAIN steps : p # q => steps[p].id # steps[q].id
    /\ StepIds \cap otherIds = {}
    /\ \A p \in DOMAIN last.pre : steps[p].id = last.pre[p].id

C13_Witness ==
    /\ Len(steps) >= 2
    /\ otherIds # {}
    /\ \E p \in DOMAIN steps : Len(steps[p].parts) >= 2

\* C14: an update with a non-empty description applied to the step of its
\* index fires the step's change notification exactly once, inside the
\* call, when the description is already extended and the update already
\* appended to the fragments: the subscriber sees the final state.
C14_ChangeFiredAfterMutation ==
    (/\ last.op = "updateSteps"
     /\ SlotOccupied(last.pre, last.arg.index)
     /\ last.pre[last.arg.index + 1].index = last.arg.index
     /\ NonEmpty(last.arg.description))
    => LET before == last.pre[last.arg.index + 1]
           after == steps[last.arg.index + 1]
       IN  /\ ~last.threw
           /\ after.parts = Append(before.parts, last.arg)
           /\ after.description.value =
                  before.description.value \o last.arg.description.value
           /\ Len(last.events) = 1
           /\ last.events[1].kind = "stepDidChange"
           /\ last.events[1].id = before.id
           /\ last.events[1].view = <<after>>

C14_Witness ==
    /\ last.op = "updateSteps"
    /\ SlotOccupied(last.pre, last.arg.index)
    /\ last.pre[last.arg.index + 1].index = last.arg.index
    /\ NonEmpty(last.arg.description)
    /\ Len(steps[last.arg.index + 1].parts) >= 3
    /\ last.events # <<>>

\* the producer follows the protocol: every update carries an index already
\* seen or the number of steps the plan has when the update arrives
FollowsProtocol ==
    \A k \in DOMAIN history :
        \/ \E j \in 1..(k - 1) :
               history[j].progress.index = history[k].progress.index
        \/ history[k].progress.index =
               Cardinality({j \in 1..(k - 1) : history[j].created})

\* C15: when the producer follows the protocol no updateSteps call raises
\* the index-mismatch error.
C15_NoMismatchUnderProtocol ==
    (FollowsProtocol /\ last.op = "updateSteps") => ~last.threw

C15_Witness ==
    /\ FollowsProtocol
    /\ last.op = "updateSteps"
    /\ Len(history) >= 3
    /\ Len(steps) >= 2
    /\ last.arg.index = 0
    /\ ~last.threw
\* C16: getSemanticSearchResult returns the server's code spans reordered
\* by a stable sort: a permutation in which every span with a non-null
\* score precedes every span with a null score, non-null scores do not
\* increase, and spans that compare equal keep their original order.
C16_StableScoreSort ==
    searchPc = "done" =>
        LET n == Len(response)
            pos(k) == searchResult[k].span
        IN  /\ Len(searchResult) = n
            /\ {pos(k) : k \in 1..n} = 1..n
            /\ \A j, k \in 1..n :
                  j < k =>
                      LET a == response[pos(j)]
                          b == response[pos(k)]
                      IN  /\ ~(a.isNull /\ ~b.isNull)
                          /\ (~a.isNull /\ ~b.isNull) => a.v >= b.v
                          /\ a = b => pos(j) < pos(k)

C16_Witness ==
    /\ searchPc = "done"
    /\ Len(response) = 3
    /\ response[1].isNull
    /\ ~response[2].isNull
    /\ response[2] = response[3]
    /\ searchResult = <<[span |-> 2], [span |-> 3], [span |-> 1]>>

ThrownFetches == Len(SelectSeq(outcomes, LAMBDA o : o = Thrown))

\* C17: waitForGreenHC makes at most 10 health-check fetches; it returns at
\* the first fetch that does not throw, with true exactly when the status
\* is 200; after 10 fetches that threw it rethrows the error of the 10th;
\* and after the k-th failed fetch it sleeps k seconds.
C17_HealthCheckRetries ==
    /\ Len(outcomes) <= 10
    /\ \A k \in 1..(Len(outcomes) - 1) : outcomes[k] = Thrown
    /\ hcPc = "returned" <=>
          (outcomes # <<>> /\ outcomes[Len(outcomes)] # Thrown)
    /\ hcPc = "returned" => hcValue = (outcomes[Len(outcomes)] = 200)
    /\ hcPc = "thrown" => (ThrownFetches = 10 /\ hcError = 10)
    /\ ThrownFetches = 10 => hcPc \in {"sleep", "thrown"}
    /\ sleeps = [k \in 1..ThrownFetches |-> 1000 * k]

C17_Witness ==
    /\ hcPc = "thrown"
    /\ Len(outcomes) = 10
    /\ Len(sleeps) = 10
    /\ sleeps[10] = 10000

\* C18: every runCommand call has its command run exactly once, on the
\* process that call created and with that call's command string: at once
\* when shell integration is active, otherwise once the wait has ended;
\* in every interleaving of runCommand calls.
C18_EachCommandRunOnce ==
    \A p \in DOMAIN procs :
        /\ Len(procs[p].runs) <= 1
        /\ \A r \in DOMAIN procs[p].runs :
               procs[p].runs[r].command = procs[p].command
        /\ ~procs[p].waiting => Len(procs[p].runs) = 1

Completed(p) == "completed" \in procs[p].emitted

\* C19: a terminal is busy from the runCommand call until the process that
\* call started emits 'completed', so getTerminals(false) never lists a
\* terminal that has a command which has not completed.
C19_BusyUntilCompleted ==
    /\ \A p \in DOMAIN procs : ~Completed(p) => tinfo[procs[p].term].busy
    /\ \A m \in Managers :
           \A t \in getTerminals(m, FALSE) :
               \A p \in DOMAIN procs : procs[p].term = t => Completed(p)

\* call k of executeTerminalCommand holds its terminal from the return of
\* getOrCreateTerminal until the command it runs there has completed
Holds(k) ==
    /\ tasks[k].term # 0
    /\ tasks[k].proc = 0 \/ ~Completed(tasks[k].proc)

\* C20: a terminal is never handed to two commands at once: while a call
\* holds the terminal getOrCreateTerminal returned to it, no other
\* getOrCreateTerminal call returns that terminal.
C20_NoTerminalSharedByTwoCommands ==
    \A j, k \in DOMAIN tasks :
        (j # k /\ Holds(j) /\ Holds(k)) => tasks[j].term # tasks[k].term

NoShellIntegration(p) == "no_shell_integration" \in procs[p].emitted

\* C21: once a process has emitted 'no_shell_integration' its terminal is
\* gone from the TerminalRegistry, from its manager's terminal-id set and,
\* with the process, from that manager's process map; the terminal is never
\* reused: getOrCreateTerminal does not find it, no getTerminals lists it
\* and the manager's getUnretrievedOutput for its id returns the empty
\* string.
C21_RemovedTerminalNeverReused ==
    \A p \in DOMAIN procs :
        NoShellIntegration(p) =>
            LET t == procs[p].term
                m == procs[p].mgr
            IN  /\ \A k \in DOMAIN registry : registry[k] # t
                /\ t \notin mgrIds[m]
                /\ mgrProcs[m][t] # p
                /\ \A cwd \in Cwds : availableTerminal(cwd) # t
                /\ \A n \in Managers, busy \in BOOLEAN :
                       t \notin getTerminals(n, busy)
                /\ getUnretrievedOutput(m, t) = <<>>

\* the removed terminal is idle and has shell integration (it would be
\* reused if it were still registered), and its manager has a run process
\* for it in its map again, from a later runCommand on the same TerminalInfo
C21_Witness ==
    \E p \in DOMAIN procs :
        /\ NoShellIntegration(p)
        /\ tinfo[procs[p].term].shellIntegration
        /\ ~tinfo[procs[p].term].busy
        /\ mgrProcs[procs[p].mgr][procs[p].term] # 0
        /\ Output(mgrProcs[procs[p].mgr][procs[p].term]) # <<>>

\* C22: a call of executeTerminalCommand with wait_for_exit = true calls
\* disposeAll on its manager exactly once on every way out (the process
\* promise resolved, the promise rejected, getOrCreateTerminal failed) and
\* not before; it returns only once the process promise has settled.  A
\* call with wait_for_exit = false never awaits the process and never
\* calls disposeAll.
C22_DisposeOnceOnEveryExit ==
    \A k \in DOMAIN tasks :
        LET task == tasks[k]
            left == task.pc \in {"returned", "rejected"}
        IN  IF task.wait_for_exit
            THEN /\ disposals[k] = IF left THEN 1 ELSE 0
                 /\ task.pc = "returned" =>
                        /\ task.proc # 0
                        /\ procs[task.proc].promise = "resolved"
                 /\ task.pc = "rejected" =>
                        \/ task.proc = 0 /\ task.term = 0
                        \/ /\ task.proc # 0
                           /\ procs[task.proc].promise = "rejected"
            ELSE /\ disposals[k] = 0
                 /\ task.pc # "awaiting"
                 /\ task.proc # 0 => task.pc = "returned"

\* the three ways out of a waiting call, and a call that does not wait and
\* has returned while its process promise is still pending
C22_Witness ==
    \E a, b, c \in DOMAIN tasks :
        /\ tasks[a].wait_for_exit /\ tasks[a].pc = "rejected"
        /\ tasks[a].proc # 0 /\ disposals[a] = 1
        /\ tasks[b].wait_for_exit /\ tasks[b].pc = "rejected"
        /\ tasks[b].proc = 0 /\ disposals[b] = 1
        /\ ~tasks[c].wait_for_exit /\ tasks[c].pc = "returned"
        /\ procs[tasks[c].proc].promise = "pending" /\ disposals[c] = 0

PolledValues == {polls[i].value : i \in DOMAIN polls}

\* C23: pWaitFor resolves only after a poll of the condition returned true;
\* it rejects when a poll threw or returned a non-boolean and when the
\* timeout elapsed first; once the promise it returned has settled, the
\* condition is not polled again and no retry timer is pending.
C23_SettlesAndStopsPolling ==
    /\ waitResult.state = "resolved" => "true" \in PolledValues
    /\ (waitPc = "done" /\ PolledValues \cap {"throws", "nonboolean"} # {})
           => waitResult.state = "rejected"
    /\ (waitPc = "done" /\ timeoutTimer = "fired")
           => waitResult = [state |-> "rejected", reason |-> "timeout"]
    /\ waitResult.state # "pending" => (~retryTimeout /\ ~latePoll)

\* the timeout elapsed while polls were going on, and a poll that was under
\* way then has returned false after pWaitFor had rejected
C23_Witness ==
    /\ waitResult = [state |-> "rejected", reason |-> "timeout"]
    /\ Len(polls) >= 2
    /\ polls[Len(polls)] = [value |-> "false", late |-> TRUE]
    /\ ~checking
====
